---- MODULE Spec2Model ----
(***************************************************************************)
(* TechGear Electronics support chatbot: the query-routing workflow of     *)
(* rag_agent.py (classifier -> RAG responder | escalation), the RAGChain   *)
(* of rag_chain.py with its lazily cached retriever and chain, and the     *)
(* /chat endpoint of main.py that calls process_query.                     *)
(*                                                                         *)
(* Text that the code inspects character by character (the classifier's    *)
(* raw output) is a sequence of one-character strings; text that the code  *)
(* only passes around or compares as a whole is a string.                  *)
(***************************************************************************)
EXTENDS Integers, Sequences, FiniteSets, TLC

\* ------------------------------------------------------------------ bounds
\* Longest run of whitespace put around a classifier output (both sides together).
MaxPad == 2
\* Largest number of passages in the persisted vector index.
MaxDocs == 2
\* Largest k a direct caller passes to get_retriever / retrieve_context.
MaxK == 4
\* Number of threads that call process_query at the same time.
NThreads == 2

\* ------------------------------------------------------- program constants
\* get_retriever(self, k: int = 4), retrieve_context(self, query, k: int = 4)
DEFAULT_K == 4

\* QueryCategory values
PRODUCTS == "PRODUCTS"
RETURNS == "RETURNS"
GENERAL == "GENERAL"
ESCALATE == "ESCALATE"

\* {cat.value for cat in QueryCategory}
valid_categories == {PRODUCTS, RETURNS, GENERAL, ESCALATE}

\* The fixed escalation template.
ESCALATION_MESSAGE ==
    "I understand your concern, and I want to make sure you receive the best possible assistance.\n\nI'm connecting you with one of our customer support specialists who can help you further. A team member will be with you shortly.\n\n**What you can expect:**\n- A support specialist will contact you within 24 hours\n- For urgent matters, please call our toll-free number: 1800-102-TECH (1800-102-8324)\n- You can also email us at support@techgear.com\n\nThank you for your patience. Is there anything else I can help you with in the meantime?"

\* ------------------------------------------------------------ text helpers
\* Whitespace characters a TLA+ string has no escape for; each string holds
\* the one character named: vertical tab \x0b, the separators \x1c..\x1f,
\* next line \x85 and no-break space \xa0.
VT == ""
FS == ""
GS == ""
RS == ""
US == ""
NEL == ""
NBSP == " "

\* Characters that str.strip() with no argument removes: those for which
\* str.isspace() is true, up to U+00FF (the characters a TLA+ string holds).
Whitespace == {" ", "\t", "\n", "\r", "\f", VT, FS, GS, RS, US, NEL, NBSP}

LowerLetters ==
    <<"a","b","c","d","e","f","g","h","i","j","k","l","m",
      "n","o","p","q","r","s","t","u","v","w","x","y","z">>

UpperLetters ==
    <<"A","B","C","D","E","F","G","H","I","J","K","L","M",
      "N","O","P","Q","R","S","T","U","V","W","X","Y","Z">>

\* The small letters of U+00E0..U+00FE whose capital is one character of
\* U+00C0..U+00DE, and those capitals.
Latin1Lower ==
    <<"à","á","â","ã","ä","å","æ","ç","è","é","ê","ë","ì","í","î",
      "ï","ð","ñ","ò","ó","ô","õ","ö","ø","ù","ú","û","ü","ý","þ">>

Latin1Upper ==
    <<"À","Á","Â","Ã","Ä","Å","Æ","Ç","È","É","Ê","Ë","Ì","Í","Î",
      "Ï","Ð","Ñ","Ò","Ó","Ô","Õ","Ö","Ø","Ù","Ú","Û","Ü","Ý","Þ">>

\* Characters above U+00FF, which a TLA+ string cannot hold, stand as their
\* Python escape: the long s, and the capitals of the micro sign and of y
\* with diaeresis.
LONG_S == "\\u017f"
CAPITAL_MU == "\\u039c"
CAPITAL_Y_DIAERESIS == "\\u0178"

\* str.upper() on one character, the string it becomes: the capital of an
\* ASCII or Latin-1 small letter, SS for the sharp s, the Greek capital for
\* the micro sign, S for the long s, and any other character itself.
UpperChar(c) ==
    IF \E i \in 1..26 : LowerLetters[i] = c
    THEN <<UpperLetters[CHOOSE i \in 1..26 : LowerLetters[i] = c]>>
    ELSE IF \E i \in 1..Len(Latin1Lower) : Latin1Lower[i] = c
    THEN <<Latin1Upper[CHOOSE i \in 1..Len(Latin1Lower) : Latin1Lower[i] = c]>>
    ELSE IF c = "ß" THEN <<"S", "S">>
    ELSE IF c = "µ" THEN <<CAPITAL_MU>>
    ELSE IF c = "ÿ" THEN <<CAPITAL_Y_DIAERESIS>>
    ELSE IF c = LONG_S THEN <<"S">>
    ELSE <<c>>

\* str.lower() on one ASCII character (used to build inputs only).
LowerChar(c) ==
    IF \E i \in 1..26 : UpperLetters[i] = c
    THEN LowerLetters[CHOOSE i \in 1..26 : UpperLetters[i] = c]
    ELSE c

SetMin(S) == CHOOSE x \in S : \A y \in S : x <= y
SetMax(S) == CHOOSE x \in S : \A y \in S : x >= y

\* A plausible slip: only leading whitespace is removed (lstrip for strip).
strip_leading_only(s) ==
    LET keep == {i \in 1..Len(s) : s[i] \notin Whitespace}
    IN  IF keep = {} THEN <<>> ELSE SubSeq(s, SetMin(keep), Len(s))

\* str.strip(): drop leading and trailing whitespace, keep the inside.
strip(s) ==
    LET keep == {i \in 1..Len(s) : s[i] \notin Whitespace}
    IN  IF keep = {} THEN <<>> ELSE SubSeq(s, SetMin(keep), SetMax(keep))

\* str.upper(): each character's capital form, in order.
RECURSIVE upper(_)
upper(s) == IF s = <<>> THEN <<>> ELSE UpperChar(Head(s)) \o upper(Tail(s))

\* The string a character sequence spells.
RECURSIVE Str(_)
Str(s) == IF s = <<>> THEN "" ELSE Head(s) \o Str(Tail(s))

\* ------------------------------------------------------------------ inputs
\* Python's None, for the places that hold an object or nothing. Objects are
\* records, so None is a record no object equals.
None == [none |-> TRUE]

\* Customer queries (opaque to the core).
Queries == {"What is the price of SmartWatch Pro X?",
            "This is unacceptable! I want to speak to a manager!"}

SeqsUpTo(S, n) == UNION {[1..m -> S] : m \in 0..n}

\* Whitespace put before and after a label by the classification model.
PadPairs ==
    {p \in SeqsUpTo({" ", "\n"}, MaxPad) \X SeqsUpTo({" ", "\n"}, MaxPad) :
        Len(p[1]) + Len(p[2]) <= MaxPad}
    \cup {<< <<"\t">>, <<"\r", "\n">> >>, << <<"\f">>, <<>> >>,
          << <<VT>>, <<US, NBSP>> >>, << <<FS, GS>>, <<RS, NEL>> >>}

\* What the classification model may answer, before padding and casing: the
\* four labels, nothing, an unknown word, a label with a trailing period and a
\* label broken by an inner blank.
Cores ==
    {<<"P","R","O","D","U","C","T","S">>,
     <<"R","E","T","U","R","N","S">>,
     <<"G","E","N","E","R","A","L">>,
     <<"E","S","C","A","L","A","T","E">>,
     <<>>,
     <<"U","N","K","N","O","W","N">>,
     <<"E","S","C","A","L","A","T","E",".">>,
     <<"E","S","C"," ","A","L","A","T","E">>}

lower(s) == [i \in 1..Len(s) |-> LowerChar(s[i])]
capitalize(s) == [i \in 1..Len(s) |-> IF i = 1 THEN s[i] ELSE LowerChar(s[i])]

\* Answers with letters outside ASCII: a label spelt with the long s, one
\* with the sharp s, one with an accented letter, and two letters whose
\* capital lies above U+00FF.
NonAsciiRaws ==
    {<<"r","e","t","u","r","n",LONG_S>>,
     <<" ","e","ß","c","a","l","a","t","e">>,
     <<"r","é","t","u","r","n","s","\n">>,
     <<"µ","ÿ">>}

\* Raw texts returned by chain.invoke({"query": query}) in classifier_node.
RawOutputs ==
    {p[1] \o v \o p[2] :
        p \in PadPairs,
        v \in UNION {{c, lower(c), capitalize(c)} : c \in Cores}}
    \cup NonAsciiRaws

\* Texts returned by the generation model through StrOutputParser.
GenTexts == {"", "The SmartWatch Pro X is priced at 15,999."}

\* str(e) of the exception a failing collaborator call raises.
ErrTexts == {"429 quota exceeded for key AIza-secret", "Connection reset by peer"}

\* k values direct callers of the RAGChain pass.
Ks == 1..MaxK

\* Bearer tokens: whether jwt.decode accepts signature and expiry, and the
\* payload's "sub" claim (None when the payload has none).
Tokens ==
    {[ok |-> TRUE,  sub |-> [email |-> "alice@example.com"]],
     [ok |-> TRUE,  sub |-> [email |-> "ghost@example.com"]],
     [ok |-> TRUE,  sub |-> None],
     [ok |-> FALSE, sub |-> [email |-> "alice@example.com"]]}

\* Emails that sign up through POST /auth/signup.
SignupEmails == {"alice@example.com"}

\* ------------------------------------------------------- rag_agent.py nodes
\* A plausible slip: the fallback to GENERAL is left out.
classifier_node_no_fallback(st, raw) ==
    LET result == Str(upper(strip(raw)))
    IN  [st EXCEPT !.category = result,
                   !.needs_escalation = (result = ESCALATE)]

\* classifier_node, given the raw text the classification chain returned.
classifier_node(st, raw) ==
    LET normalized == Str(upper(strip(raw)))
        result == IF normalized \notin valid_categories THEN GENERAL ELSE normalized
    IN  [st EXCEPT !.category = result,
                   !.needs_escalation = (result = ESCALATE)]

\* A plausible slip: the node returns a fresh record instead of {**state, ...},
\* so the classifier's fields are lost.
rag_responder_node_fresh(st, response) ==
    [input |-> st.input, category |-> "", response |-> response,
     needs_escalation |-> FALSE]

\* A plausible slip: an empty generated text is replaced by a placeholder, so
\* the model's text is not passed on verbatim.
rag_responder_node_placeholder(st, response) ==
    [st EXCEPT !.response = IF response = "" THEN "No answer." ELSE response]

\* rag_responder_node, given the text rag.invoke(query) returned.
rag_responder_node(st, response) == [st EXCEPT !.response = response]

\* A plausible slip: the node sets the flag and forgets the message.
escalation_node_no_message(st) == [st EXCEPT !.needs_escalation = TRUE]

\* escalation_node
escalation_node(st) ==
    [st EXCEPT !.response = ESCALATION_MESSAGE, !.needs_escalation = TRUE]

\* A plausible slip: the comparison is inverted.
route_after_classification_inverted(st) ==
    IF st.category # ESCALATE THEN "escalation" ELSE "rag_responder"

\* A plausible slip: the branch is taken from the needs_escalation flag.
route_after_classification_by_flag(st) ==
    IF st.needs_escalation THEN "escalation" ELSE "rag_responder"

\* route_after_classification: category = state.get("category", "")
route_after_classification(st) ==
    LET category == IF "category" \in DOMAIN st THEN st.category ELSE ""
    IN  IF category = ESCALATE THEN "escalation" ELSE "rag_responder"

\* A plausible slip: rag_responder is wired back to the classifier.
workflow_edge_loop(node) ==
    IF node = "rag_responder" THEN "classifier" ELSE "END"

\* A plausible slip: rag_responder is wired to escalation instead of END.
workflow_edge_chained(node) ==
    IF node = "rag_responder" THEN "escalation" ELSE "END"

\* build_workflow: add_edge("rag_responder", END), add_edge("escalation", END).
workflow_edge(node) ==
    CASE node = "rag_responder" -> "END"
      [] node = "escalation"    -> "END"

\* build_workflow: the mapping of add_conditional_edges("classifier", ...).
conditional_edge(branch) ==
    CASE branch = "rag_responder" -> "rag_responder"
      [] branch = "escalation"    -> "escalation"

\* A plausible slip: both terminal nodes are wired to the classifier with
\* plain edges, so the graph starts both when the classifier is done.
successors_fan_out(node, st) ==
    IF node = "classifier" THEN {"rag_responder", "escalation"}
    ELSE {workflow_edge(node)} \ {"END"}

\* build_workflow: the nodes the graph starts once node is done with state
\* st: the target of the conditional edge for the classifier, the target of
\* its plain edge for a terminal node, none when that target is END.
successors(node, st) ==
    IF node = "classifier" THEN {conditional_edge(route_after_classification(st))}
    ELSE {workflow_edge(node)} \ {"END"}

\* process_query: the state graph.invoke starts from.
initial_state(query) ==
    [input |-> query, category |-> "", response |-> "", needs_escalation |-> FALSE]

\* ------------------------------------------------------------ rag_chain.py
\* RAGChain.__init__
NewRAGChain == [_vectorstore |-> None, _retriever |-> None, _chain |-> None, _llm |-> None]

\* get_rag_chain: the singleton, created on first use.
get_rag_chain(inst) == IF inst = None THEN NewRAGChain ELSE inst

\* RAGChain.get_vectorstore (self after the call).
get_vectorstore(self) ==
    IF self._vectorstore = None THEN [self EXCEPT !._vectorstore = [collection_name |-> "techgear_products"]] ELSE self

\* RAGChain.get_retriever(k) (self after the call; the retriever returned is
\* self._retriever of that record).
get_retriever(self, k) ==
    IF self._retriever = None
    THEN [get_vectorstore(self) EXCEPT !._retriever = [k |-> k]]
    ELSE self

\* RAGChain._get_llm (self after the call).
get_llm(self) ==
    IF self._llm = None THEN [self EXCEPT !._llm = [model |-> "gemini-2.0-flash"]] ELSE self

\* RAGChain.get_chain (self after the call; the chain holds the retriever it
\* was built with).
get_chain(self) ==
    IF self._chain = None
    THEN LET withRetriever == get_retriever(self, DEFAULT_K)
             withLlm == get_llm(withRetriever)
         IN  [withLlm EXCEPT !._chain = [retriever |-> withRetriever._retriever]]
    ELSE self

\* The passages of the index in descending similarity to the query.
Ranking(n, query) ==
    IF query = "What is the price of SmartWatch Pro X?"
    THEN [i \in 1..n |-> i]
    ELSE [i \in 1..n |-> n + 1 - i]

\* retriever.invoke(query): similarity search with the retriever's own k.
retriever_invoke(retriever, n, query) ==
    LET ranked == Ranking(n, query)
    IN  SubSeq(ranked, 1, IF retriever.k < n THEN retriever.k ELSE n)

\* doc.page_content
page_content(doc) == "passage " \o ToString(doc)

\* A plausible slip: an empty retrieval is given a placeholder context.
RECURSIVE _format_docs_placeholder(_)
_format_docs_placeholder(docs) ==
    IF docs = <<>> THEN "No relevant documents found."
    ELSE IF Len(docs) = 1 THEN page_content(docs[1])
    ELSE page_content(docs[1]) \o "\n\n---\n\n" \o _format_docs_placeholder(Tail(docs))

\* RAGChain._format_docs: "\n\n---\n\n".join(doc.page_content for doc in docs)
RECURSIVE _format_docs(_)
_format_docs(docs) ==
    IF docs = <<>> THEN ""
    ELSE IF Len(docs) = 1 THEN page_content(docs[1])
    ELSE page_content(docs[1]) \o "\n\n---\n\n" \o _format_docs(Tail(docs))

\* ------------------------------------------------------------------- state
VARIABLES
    pc,              \* where the server is: "boot", "idle", a workflow step, "done", "raised"
    reqQuery,        \* request.query of the request being served, "" before the first
    state,           \* the AgentState of the running invocation
    rawOut,          \* [text |-> raw text the classification chain returned], None before
    _compiled_graph, \* rag_agent._compiled_graph: None or the compiled graph
    _rag_chain_instance, \* rag_chain._rag_chain_instance: None or the RAGChain
    indexDocs,       \* number of passages in the persisted vector index
    calls,           \* collaborator calls issued by the running invocation
    retrievalArgs,   \* query and k of the invocation's similarity search, None before
    prompt,          \* context and question handed to the generation model
    genOut,          \* [text |-> text the generation model returned], None before
    ran,             \* nodes the graph has started in this invocation, in order
    active,          \* steps of this invocation that have started and not ended
    failedAt,        \* [call, text] of the call that raised in process_query, None if none did
    result,          \* what process_query returned, None if it has not returned
    error,           \* [text |-> str(e)] of the exception process_query raised, None if none
    http,            \* the response of the last /chat request, None before
    rcResult,        \* k and result of the last direct retrieve_context call
    users,           \* emails of the rows of the users table
    reqToken,        \* bearer token of the last /chat request, None before the first
    th,              \* per thread calling process_query directly: its position and locals
    ragHeap,         \* the RAGChain objects the threads constructed and still refer to
    graphMade        \* how many times the threads ran compile_workflow

vars == <<pc, reqQuery, state, rawOut, _compiled_graph, _rag_chain_instance,
          indexDocs, calls, retrievalArgs, prompt, genOut, ran, active, failedAt,
          result, error, http, rcResult, users, reqToken,
          th, ragHeap, graphMade>>

\* Variables of one invocation of process_query.
invocationVars == <<reqQuery, reqToken, state, rawOut, calls, retrievalArgs, prompt,
                    genOut, ran, active, failedAt, result, error>>

NoCalls == [classify |-> 0, retrieve |-> 0, generate |-> 0]

\* Variables of the threads that call process_query directly.
threadVars == <<th, ragHeap, graphMade>>

\* Variables of the server and of the request it is serving.
serverVars == <<pc, invocationVars, http, rcResult, users>>

Threads == 1..NThreads

\* A thread that is not inside process_query.
IdleThread ==
    [pc |-> "idle", query |-> "", state |-> None, raw |-> None, gen |-> None,
     prompt |-> None, result |-> None, error |-> None, graph |-> None, rag |-> None,
     retriever |-> None, chain |-> None]

\* Module import: both singletons unset, nothing served yet. init_database is
\* CREATE TABLE IF NOT EXISTS, so the users table holds the rows users.db was
\* left with, none on a first run; the persisted index holds the passages
\* earlier ingestion runs stored.
Init ==
    /\ pc = "boot"
    /\ reqQuery = ""
    /\ state = None
    /\ rawOut = None
    /\ _compiled_graph = None
    /\ _rag_chain_instance = None
    /\ indexDocs \in 0..MaxDocs
    /\ calls = NoCalls
    /\ retrievalArgs = None
    /\ prompt = None
    /\ genOut = None
    /\ ran = <<>>
    /\ active = {}
    /\ failedAt = None
    /\ result = None
    /\ error = None
    /\ http = None
    /\ rcResult = None
    /\ users \in SUBSET SignupEmails
    /\ reqToken = None
    /\ th = [t \in Threads |-> IdleThread]
    /\ ragHeap = [i \in 1..NThreads |-> None]
    /\ graphMade = 0

\* get_compiled_graph: compile on first use, reuse afterwards.
get_compiled_graph(g) == IF g = None THEN [entry_point |-> "classifier"] ELSE g

\* lifespan: the graph is pre-compiled before the first request is accepted;
\* if get_compiled_graph raises, a warning is printed and the server starts
\* without a compiled graph.
Lifespan ==
    /\ pc = "boot"
    /\ \/ _compiled_graph' = get_compiled_graph(_compiled_graph)
       \/ UNCHANGED _compiled_graph
    /\ pc' = "idle"
    /\ UNCHANGED <<invocationVars, _rag_chain_instance, indexDocs, users, threadVars, http, rcResult>>

\* decode_token: None for a token jwt.decode rejects or one without "sub".
decode_token(token) ==
    IF ~token.ok THEN None
    ELSE IF token.sub = None THEN None
    ELSE [email |-> token.sub.email]

\* get_user_by_email
get_user_by_email(email) == IF email \in users THEN [email |-> email] ELSE None

\* A plausible slip: the lookup of the token's user is left out.
get_current_user_no_lookup(token) ==
    LET token_data == decode_token(token)
    IN  IF token_data = None
        THEN [status |-> 401, detail |-> "Invalid or expired token"]
        ELSE [status |-> 200, user |-> [email |-> token_data.email]]

\* get_current_user: the user, or the 401 it raises.
get_current_user(token) ==
    LET token_data == decode_token(token)
    IN  IF token_data = None
        THEN [status |-> 401, detail |-> "Invalid or expired token"]
        ELSE IF get_user_by_email(token_data.email) = None
             THEN [status |-> 401, detail |-> "User not found"]
             ELSE [status |-> 200, user |-> get_user_by_email(token_data.email)]

\* POST /chat up to the call of process_query: the authentication dependency,
\* the API-key check, then process_query's get_compiled_graph and initial
\* state, with which graph.invoke starts the graph's entry node. A request
\* that is turned away is answered at once. When the graph is not compiled
\* yet (the lifespan's attempt raised), compile_workflow may raise again:
\* process_query raises before any state is built or node started, and
\* _compiled_graph stays unset.
ChatRequest ==
    /\ pc = "idle"
    /\ \E token \in Tokens, query \in Queries, hasKey \in BOOLEAN :
         LET auth == get_current_user(token)
         IN  /\ reqQuery' = query
             /\ reqToken' = token
             /\ rawOut' = None
             /\ calls' = NoCalls
             /\ retrievalArgs' = None
             /\ prompt' = None
             /\ genOut' = None
             /\ ran' = <<>>
             /\ result' = None
             /\ rcResult' = None
             /\ IF auth.status # 200
                THEN /\ http' = auth
                     /\ state' = None
                     /\ active' = {}
                     /\ failedAt' = None
                     /\ error' = None
                     /\ pc' = "idle"
                     /\ UNCHANGED _compiled_graph
                ELSE IF ~hasKey
                THEN /\ http' = [status |-> 500, detail |-> "Google API key not configured."]
                     /\ state' = None
                     /\ active' = {}
                     /\ failedAt' = None
                     /\ error' = None
                     /\ pc' = "idle"
                     /\ UNCHANGED _compiled_graph
                ELSE /\ http' = None
                     /\ \/ /\ _compiled_graph' = get_compiled_graph(_compiled_graph)
                           /\ state' = initial_state(query)
                           /\ active' = {_compiled_graph'.entry_point}
                           /\ failedAt' = None
                           /\ error' = None
                           /\ pc' = _compiled_graph'.entry_point
                        \/ /\ _compiled_graph = None
                           /\ UNCHANGED _compiled_graph
                           /\ state' = None
                           /\ active' = {}
                           /\ \E e \in ErrTexts :
                                /\ failedAt' = [call |-> "compile_workflow", text |-> e]
                                /\ error' = [text |-> e]
                           /\ pc' = "raised"
    /\ UNCHANGED <<_rag_chain_instance, indexDocs, users, threadVars>>

\* POST /auth/signup: 400 for an email already registered, else the row is
\* inserted and a token for it returned.
Signup ==
    /\ pc = "idle"
    /\ \E email \in SignupEmails :
         IF get_user_by_email(email) # None
         THEN /\ http' = [status |-> 400, detail |-> "Email already registered"]
              /\ UNCHANGED users
         ELSE /\ users' = users \cup {email}
              /\ http' = [status |-> 200,
                          access_token |-> [ok |-> TRUE, sub |-> [email |-> email]]]
    /\ UNCHANGED <<pc, invocationVars, _compiled_graph, _rag_chain_instance,
                   indexDocs, threadVars, rcResult>>

\* A plausible slip: process_query catches the exception and hands back the
\* state it had, with an empty response.
node_raises_swallowed(st, e) ==
    [pc |-> "done", result |-> [st EXCEPT !.response = ""], error |-> None]

\* A plausible slip: a failed collaborator call sends the invocation back to
\* the classifier for another try.
node_raises_retry(st, e) ==
    [pc |-> "classifier", result |-> None, error |-> None]

\* process_query / graph.invoke: no handler around the nodes, so an exception
\* raised by a node's collaborator call leaves process_query; nothing is returned.
node_raises(st, e) ==
    [pc |-> "raised", result |-> None, error |-> [text |-> e]]

\* Node 1, classifier_node: one call of the classification chain, then the
\* normalisation and the fallback. The call may raise.
ClassifierNode ==
    /\ pc = "classifier"
    /\ "classifier" \in active
    /\ ran' = Append(ran, "classifier")
    /\ calls' = [calls EXCEPT !.classify = @ + 1]
    /\ \/ \E raw \in RawOutputs :
            /\ rawOut' = [text |-> raw]
            /\ state' = classifier_node(state, raw)
            /\ active' = (active \ {"classifier"}) \cup {"route"}
            /\ pc' = "route"
            /\ UNCHANGED <<failedAt, result, error>>
       \/ \E e \in ErrTexts :
            LET out == node_raises(state, e)
            IN  /\ failedAt' = [call |-> "classification", text |-> e]
                /\ active' = {}
                /\ pc' = out.pc
                /\ result' = out.result
                /\ error' = out.error
                /\ UNCHANGED <<rawOut, state>>
    /\ UNCHANGED <<reqQuery, reqToken, _compiled_graph, _rag_chain_instance, indexDocs, users, threadVars,
                   retrievalArgs, prompt, genOut, http, rcResult>>

\* The conditional edge after the classifier: the routing function is
\* evaluated on the classifier's state and the graph starts its successors.
Route ==
    /\ pc = "route"
    /\ "route" \in active
    /\ active' = (active \ {"route"}) \cup successors("classifier", state)
    /\ pc' \in successors("classifier", state)
    /\ UNCHANGED <<reqQuery, reqToken, state, rawOut, calls, retrievalArgs, prompt,
                   genOut, ran, failedAt, result, error, _compiled_graph,
                   _rag_chain_instance, indexDocs, users, threadVars, http, rcResult>>

\* Where the graph goes after a terminal node returned st: the node has
\* ended and its successors start; with none left, graph.invoke returns st.
AfterNode(node, st) ==
    /\ active' = (active \ {node}) \cup successors(node, st)
    /\ IF active' = {}
       THEN /\ pc' = "done"
            /\ result' = st
       ELSE /\ pc' \in active'
            /\ UNCHANGED result

\* Node 2, rag_responder_node, first half: get_rag_chain(), rag.invoke(query)
\* up to the end of the retrieval branch of the chain (get_chain, then
\* retriever | _format_docs on the query). The similarity search may raise.
RagRetrieve ==
    /\ pc = "rag_responder"
    /\ "rag_responder" \in active
    /\ LET rag == get_chain(get_rag_chain(_rag_chain_instance))
           retriever == rag._chain.retriever
       IN  /\ _rag_chain_instance' = rag
           /\ ran' = Append(ran, "rag_responder")
           /\ calls' = [calls EXCEPT !.retrieve = @ + 1]
           /\ retrievalArgs' = [query |-> state.input, k |-> retriever.k]
           /\ \/ /\ prompt' = [context |-> _format_docs(retriever_invoke(retriever, indexDocs, state.input)),
                               question |-> state.input]
                 /\ pc' = "rag_generate"
                 /\ UNCHANGED <<active, failedAt, result, error>>
              \/ \E e \in ErrTexts :
                   LET out == node_raises(state, e)
                   IN  /\ failedAt' = [call |-> "retrieval", text |-> e]
                       /\ active' = {}
                       /\ pc' = out.pc
                       /\ result' = out.result
                       /\ error' = out.error
                       /\ UNCHANGED prompt
    /\ UNCHANGED <<reqQuery, reqToken, state, rawOut, _compiled_graph, indexDocs, users, threadVars, genOut,
                   http, rcResult>>

\* Node 2, second half: prompt | llm | StrOutputParser(), then the node's
\* return. The generation call may raise.
RagGenerate ==
    /\ pc = "rag_generate"
    /\ "rag_responder" \in active
    /\ calls' = [calls EXCEPT !.generate = @ + 1]
    /\ \/ \E text \in GenTexts :
            /\ genOut' = [text |-> text]
            /\ state' = rag_responder_node(state, text)
            /\ AfterNode("rag_responder", state')
            /\ UNCHANGED <<failedAt, error>>
       \/ \E e \in ErrTexts :
            LET out == node_raises(state, e)
            IN  /\ failedAt' = [call |-> "generation", text |-> e]
                /\ active' = {}
                /\ pc' = out.pc
                /\ result' = out.result
                /\ error' = out.error
                /\ UNCHANGED <<genOut, state>>
    /\ UNCHANGED <<reqQuery, reqToken, rawOut, _compiled_graph, _rag_chain_instance,
                   indexDocs, users, threadVars, retrievalArgs, prompt, ran, http, rcResult>>

\* Node 3, escalation_node.
EscalationNode ==
    /\ pc = "escalation"
    /\ "escalation" \in active
    /\ ran' = Append(ran, "escalation")
    /\ state' = escalation_node(state)
    /\ AfterNode("escalation", state')
    /\ UNCHANGED <<reqQuery, reqToken, rawOut, _compiled_graph, _rag_chain_instance,
                   indexDocs, users, threadVars, calls, retrievalArgs, prompt, genOut, failedAt,
                   error, http, rcResult>>

\* chat: detail of the 500 raised for an exception whose str() is e.
chat_error_detail(e) == "An error occurred: " \o e

\* POST /chat after process_query: the ChatResponse built from the result, or
\* the HTTPException built from the exception. The handler returns, and the
\* locals of the invocation are gone with it.
ChatRespond ==
    /\ pc \in {"done", "raised"}
    /\ http' = IF pc = "done"
               THEN [status |-> 200,
                     response |-> result.response,
                     category |-> result.category,
                     needs_escalation |-> result.needs_escalation]
               ELSE [status |-> 500, detail |-> chat_error_detail(error.text)]
    /\ pc' = "idle"
    /\ state' = None
    /\ rawOut' = None
    /\ calls' = NoCalls
    /\ retrievalArgs' = None
    /\ prompt' = None
    /\ genOut' = None
    /\ ran' = <<>>
    /\ active' = {}
    /\ failedAt' = None
    /\ result' = None
    /\ error' = None
    /\ UNCHANGED <<reqQuery, reqToken, _compiled_graph, _rag_chain_instance, indexDocs, users, threadVars,
                   rcResult>>

\* A direct call rag.retrieve_context(query, k) on the singleton: the
\* retriever is fetched, then its similarity search runs. The search may
\* raise, and then the call returns nothing.
CallRetrieveContext ==
    /\ pc = "idle"
    /\ \E query \in Queries, k \in Ks :
         LET rag == get_retriever(get_rag_chain(_rag_chain_instance), k)
         IN  /\ _rag_chain_instance' = rag
             /\ \/ rcResult' = [query |-> query, k |-> k,
                                docs |-> retriever_invoke(rag._retriever, indexDocs, query)]
                \/ rcResult' = None
    /\ UNCHANGED <<pc, invocationVars, _compiled_graph, indexDocs, users, threadVars, http>>

\* A direct call get_rag_chain() and nothing else.
CallGetRagChain ==
    /\ pc = "idle"
    /\ _rag_chain_instance' = get_rag_chain(_rag_chain_instance)
    /\ rcResult' = None
    /\ UNCHANGED <<pc, invocationVars, _compiled_graph, indexDocs, users, threadVars, http>>

\* A direct call rag.get_vectorstore() on the singleton.
CallGetVectorstore ==
    /\ pc = "idle"
    /\ _rag_chain_instance' = get_vectorstore(get_rag_chain(_rag_chain_instance))
    /\ rcResult' = None
    /\ UNCHANGED <<pc, invocationVars, _compiled_graph, indexDocs, users, threadVars, http>>

\* ingest.store_in_chroma, run by the ingestion script in its own process at
\* any time: the chunks are added to the persisted collection.
Ingest ==
    /\ \E chunks \in 1..MaxDocs :
         /\ indexDocs + chunks <= MaxDocs
         /\ indexDocs' = indexDocs + chunks
    /\ UNCHANGED <<pc, invocationVars, _compiled_graph, _rag_chain_instance, users,
                   threadVars, http, rcResult>>

\* A direct call rag.get_retriever(k) on the singleton.
CallGetRetriever ==
    /\ pc = "idle"
    /\ \E k \in Ks :
         _rag_chain_instance' = get_retriever(get_rag_chain(_rag_chain_instance), k)
    /\ rcResult' = None
    /\ UNCHANGED <<pc, invocationVars, _compiled_graph, indexDocs, users, threadVars, http>>

\* A direct call rag.get_chain() on the singleton.
CallGetChain ==
    /\ pc = "idle"
    /\ _rag_chain_instance' = get_chain(get_rag_chain(_rag_chain_instance))
    /\ rcResult' = None
    /\ UNCHANGED <<pc, invocationVars, _compiled_graph, indexDocs, users, threadVars, http>>

Next ==
    \/ Lifespan
    \/ Signup
    \/ ChatRequest
    \/ ClassifierNode
    \/ Route
    \/ RagRetrieve
    \/ RagGenerate
    \/ EscalationNode
    \/ ChatRespond
    \/ CallRetrieveContext
    \/ CallGetRagChain
    \/ CallGetVectorstore
    \/ CallGetRetriever
    \/ CallGetChain
    \/ Ingest

Spec == Init /\ [][Next]_vars

\* ------------------------------------ route_after_classification alone
\* Values of the category field the routing function is applied to: the four
\* labels, the empty string of the initial state, and texts that are not
\* labels.
RouteCategories ==
    valid_categories \cup {"", "escalate", "ESCALATE ", "ESCALATION"}

\* Texts of the response field the routing function is applied to.
RouteResponses == {"", ESCALATION_MESSAGE}

\* Workflow states the routing function is applied to: every combination of
\* the fields, and states whose dict has no category key.
RouteStates ==
    [input : Queries, category : RouteCategories, response : RouteResponses,
     needs_escalation : BOOLEAN]
    \cup [input : Queries, response : RouteResponses, needs_escalation : BOOLEAN]

\* The graph stands at the conditional edge with any of these states.
InitRoute ==
    /\ pc = "route"
    /\ state \in RouteStates
    /\ reqQuery = state.input
    /\ rawOut = None
    /\ _compiled_graph = get_compiled_graph(None)
    /\ _rag_chain_instance = None
    /\ indexDocs = MaxDocs
    /\ calls = [NoCalls EXCEPT !.classify = 1]
    /\ retrievalArgs = None
    /\ prompt = None
    /\ genOut = None
    /\ ran = <<"classifier">>
    /\ active = {"route"}
    /\ failedAt = None
    /\ result = None
    /\ error = None
    /\ http = None
    /\ rcResult = None
    /\ users = {}
    /\ reqToken = None
    /\ th = [t \in Threads |-> IdleThread]
    /\ ragHeap = [i \in 1..NThreads |-> None]
    /\ graphMade = 0

NextRoute == Route

SpecRoute == InitRoute /\ [][NextRoute]_vars

\* ----------------------------------------- threads calling process_query
\* process_query called from several threads of one process, with no lifespan
\* hook before them. Each step ends where a switch of threads matters: at
\* the test of a global, its assignment, its read for the return, and each
\* node of the graph. What touches only the thread's own locals is taken
\* together with the step before it.

\* Raw texts the classification model answers a thread's call with.
ThreadRaws ==
    {<<" ","e","s","c","a","l","a","t","e","\n">>,
     <<"P","r","o","d","u","c","t","s">>}

\* str(e) of the exception a thread's failing collaborator call raises.
ThreadErrTexts == {"Connection reset by peer"}

\* compile_workflow: a new compiled graph; id tells the objects apart, the
\* n-th graph compiled having id n.
compile_workflow(n) == [entry_point |-> "classifier", id |-> n]

\* RAGChain objects constructed and still referred to.
RagConstructed == {i \in 1..NThreads : ragHeap[i] # None}

\* A plausible slip: the state of an invocation is kept between invocations
\* (a module-level dict, or a checkpointer with one thread id), so a call
\* starts from the state another call is working on.
invoke_state_shared(t, query) ==
    IF \E u \in Threads \ {t} : th[u].state # None
    THEN [(th[CHOOSE u \in Threads \ {t} : th[u].state # None].state)
            EXCEPT !.input = query]
    ELSE initial_state(query)

\* process_query: the state graph.invoke starts from, a dict built in the call.
invoke_state(t, query) == initial_state(query)

\* An exception leaves process_query in a thread: the frames of the node and
\* of process_query are unwound, and the caller holds the exception. Its
\* traceback keeps the unwound frames, and through rag_responder_node's the
\* RAGChain object the thread received, until the caller lets go of it.
ThreadRaises(t, e) ==
    LET out == node_raises(th[t].state, e)
    IN  th' = [th EXCEPT ![t] = [IdleThread EXCEPT !.pc = out.pc,
                                                   !.result = out.result,
                                                   !.error = out.error,
                                                   !.rag = th[t].rag]]

\* The query a thread asks: threads that run together ask different ones.
ThreadQuery(t) ==
    IF t % 2 = 1 THEN "What is the price of SmartWatch Pro X?"
    ELSE CHOOSE q \in Queries : q # "What is the price of SmartWatch Pro X?"

\* process_query is entered with the thread's query and calls
\* get_compiled_graph: if _compiled_graph is None
T_Start(t) ==
    /\ th[t].pc = "idle"
    /\ th' = [th EXCEPT ![t] =
                [IdleThread EXCEPT
                   !.pc = IF _compiled_graph = None THEN "g_create" ELSE "g_return",
                   !.query = ThreadQuery(t)]]
    /\ UNCHANGED <<serverVars, _compiled_graph, _rag_chain_instance, indexDocs,
                   ragHeap, graphMade>>

\* get_compiled_graph: _compiled_graph = compile_workflow(); when
\* compile_workflow raises, nothing is assigned and process_query raises.
T_GraphCreate(t) ==
    /\ th[t].pc = "g_create"
    /\ \/ /\ _compiled_graph' = compile_workflow(graphMade + 1)
          /\ graphMade' = graphMade + 1
          /\ th' = [th EXCEPT ![t].pc = "g_return"]
       \/ /\ \E e \in ThreadErrTexts : ThreadRaises(t, e)
          /\ UNCHANGED <<_compiled_graph, graphMade>>
    /\ UNCHANGED <<serverVars, _rag_chain_instance, indexDocs, ragHeap>>

\* get_compiled_graph: return _compiled_graph (the global is read again), then
\* process_query builds the initial state and enters the graph.
T_GraphReturn(t) ==
    /\ th[t].pc = "g_return"
    /\ th' = [th EXCEPT ![t].graph = _compiled_graph,
                        ![t].pc = _compiled_graph.entry_point,
                        ![t].state = invoke_state(t, th[t].query)]
    /\ UNCHANGED <<serverVars, _compiled_graph, _rag_chain_instance, indexDocs,
                   ragHeap, graphMade>>

\* classifier_node in a thread, and the conditional edge taken on its return.
T_Classifier(t) ==
    /\ th[t].pc = "classifier"
    /\ \/ \E raw \in ThreadRaws :
            LET st == classifier_node(th[t].state, raw)
            IN  th' = [th EXCEPT ![t].raw = [text |-> raw],
                                 ![t].state = st,
                                 ![t].pc = conditional_edge(route_after_classification(st))]
       \/ \E e \in ThreadErrTexts :
            ThreadRaises(t, e)
    /\ UNCHANGED <<serverVars, _compiled_graph, _rag_chain_instance, indexDocs,
                   ragHeap, graphMade>>

\* get_rag_chain: if _rag_chain_instance is None
T_RagCheck(t) ==
    /\ th[t].pc = "rag_responder"
    /\ th' = [th EXCEPT ![t].pc = IF _rag_chain_instance = None THEN "rag_create" ELSE "rag_return"]
    /\ UNCHANGED <<serverVars, _compiled_graph, _rag_chain_instance, indexDocs,
                   ragHeap, graphMade>>

\* The objects still referred to once the global is cached and the threads
\* are recs; an object nothing refers to is freed at once.
Collected(heap, cached, recs) ==
    [i \in 1..NThreads |->
        IF cached = [ref |-> i] \/ \E u \in Threads : recs[u].rag = [ref |-> i]
        THEN heap[i] ELSE None]

\* get_rag_chain: _rag_chain_instance = RAGChain(); the global holds a
\* reference to the new object, which takes the first free place.
T_RagCreate(t) ==
    /\ th[t].pc = "rag_create"
    /\ LET n == CHOOSE i \in 1..NThreads :
                   ragHeap[i] = None /\ \A j \in 1..(i - 1) : ragHeap[j] # None
       IN  /\ ragHeap' = Collected([ragHeap EXCEPT ![n] = NewRAGChain], [ref |-> n], th)
           /\ _rag_chain_instance' = [ref |-> n]
    /\ th' = [th EXCEPT ![t].pc = "rag_return"]
    /\ UNCHANGED <<serverVars, _compiled_graph, indexDocs, graphMade>>

\* get_rag_chain: return _rag_chain_instance (the global is read again).
T_RagReturn(t) ==
    /\ th[t].pc = "rag_return"
    /\ th' = [th EXCEPT ![t].rag = _rag_chain_instance, ![t].pc = "rag_invoke"]
    /\ UNCHANGED <<serverVars, _compiled_graph, _rag_chain_instance, indexDocs,
                   ragHeap, graphMade>>

\* The RAGChain object a thread received from get_rag_chain.
Self(t) == ragHeap[th[t].rag.ref]

\* rag.invoke(query) in a thread, get_chain: if self._chain is None; when it
\* is set, it is returned to invoke.
T_ChainCheck(t) ==
    /\ th[t].pc = "rag_invoke"
    /\ th' = IF Self(t)._chain = None
             THEN [th EXCEPT ![t].pc = "retriever_check"]
             ELSE [th EXCEPT ![t].chain = Self(t)._chain, ![t].pc = "rag_retrieve"]
    /\ UNCHANGED <<serverVars, _compiled_graph, _rag_chain_instance, indexDocs,
                   ragHeap, graphMade>>

\* get_retriever in a thread: if self._retriever is None; when it is set, it
\* is returned to get_chain.
T_RetrieverCheck(t) ==
    /\ th[t].pc = "retriever_check"
    /\ th' = IF Self(t)._retriever = None
             THEN [th EXCEPT ![t].pc = "vectorstore_check"]
             ELSE [th EXCEPT ![t].retriever = Self(t)._retriever, ![t].pc = "llm_check"]
    /\ UNCHANGED <<serverVars, _compiled_graph, _rag_chain_instance, indexDocs,
                   ragHeap, graphMade>>

\* get_vectorstore in a thread: if self._vectorstore is None; when it is set,
\* it is returned to get_retriever.
T_VectorstoreCheck(t) ==
    /\ th[t].pc = "vectorstore_check"
    /\ th' = [th EXCEPT ![t].pc = IF Self(t)._vectorstore = None THEN "vectorstore_set"
                                  ELSE "retriever_set"]
    /\ UNCHANGED <<serverVars, _compiled_graph, _rag_chain_instance, indexDocs,
                   ragHeap, graphMade>>

\* get_vectorstore in a thread: self._vectorstore = Chroma(...), returned to
\* get_retriever.
T_VectorstoreSet(t) ==
    /\ th[t].pc = "vectorstore_set"
    /\ ragHeap' = [ragHeap EXCEPT ![th[t].rag.ref]._vectorstore =
                                    get_vectorstore(NewRAGChain)._vectorstore]
    /\ th' = [th EXCEPT ![t].pc = "retriever_set"]
    /\ UNCHANGED <<serverVars, _compiled_graph, _rag_chain_instance, indexDocs,
                   graphMade>>

\* get_retriever in a thread: self._retriever = vectorstore.as_retriever(k)
\* with the default k of get_chain's call, returned to get_chain.
T_RetrieverSet(t) ==
    /\ th[t].pc = "retriever_set"
    /\ LET retriever == get_retriever(NewRAGChain, DEFAULT_K)._retriever
       IN  /\ ragHeap' = [ragHeap EXCEPT ![th[t].rag.ref]._retriever = retriever]
           /\ th' = [th EXCEPT ![t].retriever = retriever, ![t].pc = "llm_check"]
    /\ UNCHANGED <<serverVars, _compiled_graph, _rag_chain_instance, indexDocs,
                   graphMade>>

\* _get_llm in a thread: if self._llm is None; when it is set, it is returned
\* to get_chain.
T_LlmCheck(t) ==
    /\ th[t].pc = "llm_check"
    /\ th' = [th EXCEPT ![t].pc = IF Self(t)._llm = None THEN "llm_set" ELSE "chain_set"]
    /\ UNCHANGED <<serverVars, _compiled_graph, _rag_chain_instance, indexDocs,
                   ragHeap, graphMade>>

\* _get_llm in a thread: self._llm = ChatGoogleGenerativeAI(...), returned to
\* get_chain.
T_LlmSet(t) ==
    /\ th[t].pc = "llm_set"
    /\ ragHeap' = [ragHeap EXCEPT ![th[t].rag.ref]._llm = get_llm(NewRAGChain)._llm]
    /\ th' = [th EXCEPT ![t].pc = "chain_set"]
    /\ UNCHANGED <<serverVars, _compiled_graph, _rag_chain_instance, indexDocs,
                   graphMade>>

\* get_chain in a thread: self._chain = the chain built on the retriever the
\* thread got from get_retriever, returned to invoke.
T_ChainSet(t) ==
    /\ th[t].pc = "chain_set"
    /\ LET chain == [retriever |-> th[t].retriever]
       IN  /\ ragHeap' = [ragHeap EXCEPT ![th[t].rag.ref]._chain = chain]
           /\ th' = [th EXCEPT ![t].chain = chain, ![t].retriever = None,
                               ![t].pc = "rag_retrieve"]
    /\ UNCHANGED <<serverVars, _compiled_graph, _rag_chain_instance, indexDocs,
                   graphMade>>

\* chain.invoke(query) in a thread, retrieval branch: the similarity search
\* of the chain's retriever, which may raise.
T_RagRetrieve(t) ==
    /\ th[t].pc = "rag_retrieve"
    /\ \/ th' = [th EXCEPT
                   ![t].prompt = [context |-> _format_docs(retriever_invoke(
                                                 th[t].chain.retriever, indexDocs,
                                                 th[t].state.input)),
                                  question |-> th[t].state.input],
                   ![t].pc = "rag_generate"]
       \/ \E e \in ThreadErrTexts :
            ThreadRaises(t, e)
    /\ ragHeap' = Collected(ragHeap, _rag_chain_instance, th')
    /\ UNCHANGED <<serverVars, _compiled_graph, _rag_chain_instance, indexDocs,
                   graphMade>>

\* rag.invoke(query) in a thread, generation call and the node's return: the
\* frames of invoke and of rag_responder_node end, and with them the thread's
\* references to the RAGChain object and its chain.
T_RagGenerate(t) ==
    /\ th[t].pc = "rag_generate"
    /\ \/ \E text \in GenTexts :
            LET st == rag_responder_node(th[t].state, text)
                nxt == workflow_edge("rag_responder")
            IN  th' = [th EXCEPT ![t].gen = [text |-> text],
                                 ![t].state = st,
                                 ![t].rag = None,
                                 ![t].chain = None,
                                 ![t].pc = IF nxt = "END" THEN "done" ELSE nxt,
                                 ![t].result = IF nxt = "END" THEN st ELSE None]
       \/ \E e \in ThreadErrTexts :
            ThreadRaises(t, e)
    /\ ragHeap' = Collected(ragHeap, _rag_chain_instance, th')
    /\ UNCHANGED <<serverVars, _compiled_graph, _rag_chain_instance, indexDocs,
                   graphMade>>

\* escalation_node in a thread.
T_Escalation(t) ==
    /\ th[t].pc = "escalation"
    /\ LET st == escalation_node(th[t].state)
           nxt == workflow_edge("escalation")
       IN  th' = [th EXCEPT ![t].state = st,
                            ![t].pc = IF nxt = "END" THEN "done" ELSE nxt,
                            ![t].result = IF nxt = "END" THEN st ELSE None]
    /\ UNCHANGED <<serverVars, _compiled_graph, _rag_chain_instance, indexDocs,
                   ragHeap, graphMade>>

\* process_query has returned or raised; the thread's caller takes the
\* outcome, lets go of a held exception, and the locals are gone.
T_Return(t) ==
    /\ th[t].pc \in {"done", "raised"}
    /\ th' = [th EXCEPT ![t] = IdleThread]
    /\ ragHeap' = Collected(ragHeap, _rag_chain_instance, th')
    /\ UNCHANGED <<serverVars, _compiled_graph, _rag_chain_instance, indexDocs,
                   graphMade>>

ThreadStart == \E t \in Threads : T_Start(t)
ThreadGraphCreate == \E t \in Threads : T_GraphCreate(t)
ThreadGraphReturn == \E t \in Threads : T_GraphReturn(t)
ThreadClassifier == \E t \in Threads : T_Classifier(t)
ThreadRagCheck == \E t \in Threads : T_RagCheck(t)
ThreadRagCreate == \E t \in Threads : T_RagCreate(t)
ThreadRagReturn == \E t \in Threads : T_RagReturn(t)
ThreadChainCheck == \E t \in Threads : T_ChainCheck(t)
ThreadRetrieverCheck == \E t \in Threads : T_RetrieverCheck(t)
ThreadVectorstoreCheck == \E t \in Threads : T_VectorstoreCheck(t)
ThreadVectorstoreSet == \E t \in Threads : T_VectorstoreSet(t)
ThreadRetrieverSet == \E t \in Threads : T_RetrieverSet(t)
ThreadLlmCheck == \E t \in Threads : T_LlmCheck(t)
ThreadLlmSet == \E t \in Threads : T_LlmSet(t)
ThreadChainSet == \E t \in Threads : T_ChainSet(t)
ThreadRagRetrieve == \E t \in Threads : T_RagRetrieve(t)
ThreadRagGenerate == \E t \in Threads : T_RagGenerate(t)
ThreadEscalation == \E t \in Threads : T_Escalation(t)
ThreadReturn == \E t \in Threads : T_Return(t)

NextThreads ==
    \/ ThreadStart
    \/ ThreadGraphCreate
    \/ ThreadGraphReturn
    \/ ThreadClassifier
    \/ ThreadRagCheck
    \/ ThreadRagCreate
    \/ ThreadRagReturn
    \/ ThreadChainCheck
    \/ ThreadRetrieverCheck
    \/ ThreadVectorstoreCheck
    \/ ThreadVectorstoreSet
    \/ ThreadRetrieverSet
    \/ ThreadLlmCheck
    \/ ThreadLlmSet
    \/ ThreadChainSet
    \/ ThreadRagRetrieve
    \/ ThreadRagGenerate
    \/ ThreadEscalation
    \/ ThreadReturn

\* The threads run against a populated index.
InitThreads == Init /\ indexDocs = MaxDocs /\ users = {}

SpecThreads == InitThreads /\ [][NextThreads]_vars

\* ------------------------------------------------------------------ claims
\* The characters of each category label.
LabelChars(label) ==
    CASE label = PRODUCTS -> <<"P","R","O","D","U","C","T","S">>
      [] label = RETURNS  -> <<"R","E","T","U","R","N","S">>
      [] label = GENERAL  -> <<"G","E","N","E","R","A","L">>
      [] label = ESCALATE -> <<"E","S","C","A","L","A","T","E">>

\* c and d are the same character, or the two cases of one letter; the long
\* s is a small letter whose capital is S.
SameLetter(c, d) ==
    \/ c = d
    \/ \E i \in 1..26 : {c, d} = {LowerLetters[i], UpperLetters[i]}
    \/ {c, d} = {LONG_S, "S"}

\* raw is the label up to surrounding whitespace and letter case: whitespace,
\* then the label's letters in either case, then whitespace.
IsLabelUpTo(raw, label) ==
    LET chars == LabelChars(label)
    IN  \E a \in 0..Len(raw) :
          /\ a + Len(chars) <= Len(raw)
          /\ \A j \in 1..a : raw[j] \in Whitespace
          /\ \A j \in 1..Len(chars) : SameLetter(raw[a + j], chars[j])
          /\ \A j \in (a + Len(chars) + 1)..Len(raw) : raw[j] \in Whitespace

\* How many times a terminal node (rag_responder, escalation) was started.
TerminalRuns ==
    Cardinality({i \in 1..Len(ran) : ran[i] \in {"rag_responder", "escalation"}})

\* C1: whenever process_query has returned a result, its needs_escalation flag
\* is true exactly when its category is ESCALATE, whatever the raw text of the
\* classification model was.
C1_EscalationFlagIffEscalate ==
    pc = "done" => (result.needs_escalation = (result.category = ESCALATE))

\* C1 witness: a returned ESCALATE result whose raw classification text was
\* not the bare label.
C1_Witness ==
    /\ pc = "done"
    /\ result.category = ESCALATE
    /\ result.needs_escalation
    /\ rawOut.text # LabelChars(ESCALATE)

\* C2 as stated: every invocation that has ended, by a return or by an
\* exception, has run exactly one terminal node.
C2_ExactlyOneTerminalEveryInvocation ==
    pc \in {"done", "raised"} => TerminalRuns = 1

\* C2 amended: an invocation never starts more than one terminal node; one
\* that ended after its classification call returned has started exactly one;
\* one that ended without a classification text, because the classification
\* call or, before it, the compilation of the graph raised, has started none.
C2_ExactlyOneTerminalOnceClassified ==
    /\ TerminalRuns <= 1
    /\ (pc \in {"done", "raised"} /\ rawOut # None) => TerminalRuns = 1
    /\ (pc \in {"done", "raised"} /\ rawOut = None) =>
         /\ TerminalRuns = 0
         /\ pc = "raised"
         /\ failedAt # None
         /\ failedAt.call \in {"classification", "compile_workflow"}

\* C2 witness: a returned invocation that ran the escalation node and no
\* other terminal node.
C2_Witness ==
    /\ pc = "done"
    /\ ran = <<"classifier", "escalation">>

\* C3: when the classification text is none of the four labels up to
\* surrounding whitespace and case, the category is GENERAL from the classifier
\* to the returned result, and the classifier has not raised.
C3_UnrecognizedFallsBackToGeneral ==
    (rawOut # None /\ \A label \in valid_categories : ~IsLabelUpTo(rawOut.text, label)) =>
        /\ state.category = GENERAL
        /\ ~(failedAt # None /\ failedAt.call = "classification")
        /\ pc = "done" => result.category = GENERAL

\* C3 witness: " unknown\n" was classified and a GENERAL result returned.
C3_Witness ==
    /\ pc = "done"
    /\ rawOut = [text |-> <<" ","u","n","k","n","o","w","n","\n">>]
    /\ result.category = GENERAL

\* C4: when the classification text is one of the four labels up to
\* surrounding whitespace and case, the category is exactly that label from
\* the classifier through routing and the terminal node to the returned result.
C4_ValidLabelKept ==
    rawOut # None =>
        \A label \in valid_categories :
            IsLabelUpTo(rawOut.text, label) =>
                /\ state.category = label
                /\ pc = "done" => result.category = label

\* C4 witness: "\nreturns " was classified and a RETURNS result returned.
C4_Witness ==
    /\ pc = "done"
    /\ rawOut = [text |-> <<"\n","r","e","t","u","r","n","s"," ">>]
    /\ result.category = RETURNS

\* C5: while the category is ESCALATE the invocation has made the
\* classification call and no retrieval or generation call, and the response it
\* returns is the fixed escalation message.
C5_EscalationIsFixedAndCallFree ==
    (state # None /\ state.category = ESCALATE) =>
        /\ calls = [classify |-> 1, retrieve |-> 0, generate |-> 0]
        /\ retrievalArgs = None
        /\ genOut = None
        /\ pc = "done" => result.response = ESCALATION_MESSAGE

\* C5 witness: an ESCALATE result returned after an earlier invocation had
\* built the RAG chain.
C5_Witness ==
    /\ pc = "done"
    /\ result.category = ESCALATE
    /\ result.response = ESCALATION_MESSAGE
    /\ _rag_chain_instance # None
    /\ _rag_chain_instance._chain # None

\* C6 as stated: a returned result whose category is not ESCALATE came through
\* the Answer Generator, whose retrieval was called with the caller's query
\* and k = 4, whatever was done on the RAGChain singleton before.
C6_RetrievalWithQueryAndDefaultK ==
    (pc = "done" /\ result.category # ESCALATE) =>
        /\ ran = <<"classifier", "rag_responder">>
        /\ retrievalArgs = [query |-> reqQuery, k |-> DEFAULT_K]

\* C7 as stated: a returned result whose category is not ESCALATE has a
\* non-empty response.
C7_ResponseNonEmpty ==
    (pc = "done" /\ result.category # ESCALATE) => result.response # ""

\* C7 amended: a returned result whose category is not ESCALATE carries the
\* text the generation model returned, unchanged; it is non-empty exactly when
\* that text is.
C7_ResponseIsGeneratedTextVerbatim ==
    (pc = "done" /\ result.category # ESCALATE) =>
        /\ genOut # None
        /\ result.response = genOut.text
        /\ (result.response # "") = (genOut.text # "")

\* C7 witness: the generation model returned the empty text and the
\* invocation returned.
C7_Witness ==
    /\ pc = "done"
    /\ result.category # ESCALATE
    /\ genOut = [text |-> ""]
    /\ result.response = ""

\* C8: once the classification, retrieval or generation call has raised, the
\* invocation has ended by raising that same exception, and no result record
\* was returned.
C8_FailurePropagatesNoResult ==
    /\ failedAt # None =>
         /\ pc = "raised"
         /\ result = None
         /\ error = [text |-> failedAt.text]
    /\ pc = "done" => (failedAt = None /\ error = None)

\* C8 witness: the generation call raised after a successful classification
\* and retrieval, and process_query raised with no result.
C8_Witness ==
    /\ pc = "raised"
    /\ failedAt # None
    /\ failedAt.call = "generation"
    /\ calls = [classify |-> 1, retrieve |-> 1, generate |-> 1]
    /\ result = None

\* C9 as stated: retrieve_context(query, k) returns at most k passages,
\* whatever was called on the instance before.
C9_RetrieveContextAtMostK ==
    rcResult # None => Len(rcResult.docs) <= rcResult.k

\* C10 as stated: the detail shown to the user when process_query raised is
\* the same whatever the text of the exception.
C10_ErrorDetailIndependentOfException ==
    [][(pc = "raised" /\ pc' = "idle") =>
          \A e \in ErrTexts : http'.detail = chat_error_detail(e)]_vars

\* The token is rejected by jwt.decode, carries no "sub", or names an email
\* that has no row in the users table.
TokenRejected(token) ==
    \/ ~token.ok
    \/ token.sub = None
    \/ token.sub.email \notin users

\* The steps of process_query and its nodes.
InProcessQuery ==
    pc \in {"classifier", "route", "rag_responder", "rag_generate", "escalation",
            "done", "raised"}

\* C11: process_query runs only for a request whose token decoded and whose
\* user is in the users table; a /chat request whose token is rejected is
\* answered 401 at once, with no classification, retrieval or generation call.
C11_ChatOnlyAfterAuthentication ==
    /\ [](InProcessQuery => (reqToken # None /\ ~TokenRejected(reqToken)))
    /\ [][(ChatRequest /\ TokenRejected(reqToken')) =>
             /\ http'.status = 401
             /\ pc' = "idle"
             /\ state' = None
             /\ calls' = NoCalls
             /\ ran' = <<>>]_vars

\* C11 witness: a request with a well-signed token of an unknown user was
\* answered 401 while another user is registered, and nothing was called.
C11_Witness ==
    /\ pc = "idle"
    /\ users # {}
    /\ reqToken = [ok |-> TRUE, sub |-> [email |-> "ghost@example.com"]]
    /\ http = [status |-> 401, detail |-> "User not found"]
    /\ calls = NoCalls

\* The order of the workflow's steps: START (the classifier is to run),
\* CLASSIFIED (the route is to be evaluated, then the chosen terminal node is
\* to run or is running), TERMINAL (the invocation has ended).
StepOrder ==
    {<<"classifier", "route">>, <<"classifier", "raised">>,
     <<"route", "rag_responder">>, <<"route", "escalation">>,
     <<"rag_responder", "rag_generate">>, <<"rag_responder", "raised">>,
     <<"rag_generate", "done">>, <<"rag_generate", "raised">>,
     <<"escalation", "done">>}

\* The step an invocation standing at position p is in: the second half of
\* rag_responder belongs to that node, an ended invocation is in none.
StepAt(p) ==
    IF p \in {"classifier", "route", "rag_responder", "escalation"} THEN {p}
    ELSE IF p = "rag_generate" THEN {"rag_responder"}
    ELSE {}

\* C12: within one invocation the steps follow START -> CLASSIFIED ->
\* TERMINAL and no other order: the route is evaluated only once the
\* classifier has returned a category, a terminal node starts only once the
\* route is evaluated and is the node the route chose, no node is started
\* twice, each step of the invocation follows the end of the one before, and
\* at no moment are two steps of the invocation started and not ended: the
\* steps in progress are at most one, the one the invocation stands at.
C12_StepsInOrder ==
    /\ [](/\ Cardinality(active) <= 1
          /\ active = StepAt(pc)
          /\ pc = "classifier" => ran = <<>>
          /\ pc = "route" =>
                (ran = <<"classifier">> /\ rawOut # None
                    /\ calls.classify = 1 /\ state.category \in valid_categories)
          /\ pc \in {"rag_responder", "escalation"} =>
                (ran = <<"classifier">>
                    /\ (pc = "escalation") = (state.category = ESCALATE))
          /\ pc = "rag_generate" => ran = <<"classifier", "rag_responder">>
          /\ pc = "done" =>
                ran \in {<<"classifier", "rag_responder">>, <<"classifier", "escalation">>}
          /\ \A i, j \in 1..Len(ran) : ran[i] = ran[j] => i = j)
    /\ [][(InProcessQuery /\ pc' # pc /\ pc' # "idle") => <<pc, pc'>> \in StepOrder]_vars

\* C12 witness: an invocation that went classifier, route, rag_responder
\* (retrieval, then generation) and returned.
C12_Witness ==
    /\ pc = "done"
    /\ ran = <<"classifier", "rag_responder">>
    /\ calls = [classify |-> 1, retrieve |-> 1, generate |-> 1]
    /\ genOut # None

\* C13: the input field is the caller's query in every state of an invocation
\* and in the returned result; the classifier step leaves response as it was,
\* the rag_responder step leaves category and needs_escalation as they were,
\* and the escalation step leaves category as it was.
C13_NodesKeepUnownedFields ==
    /\ []((state # None => state.input = reqQuery)
          /\ (pc = "done" => result.input = reqQuery))
    /\ [][ClassifierNode =>
             (state'.input = state.input /\ state'.response = state.response)]_vars
    /\ [][(RagRetrieve \/ RagGenerate) =>
             /\ state'.input = state.input
             /\ state'.category = state.category
             /\ state'.needs_escalation = state.needs_escalation]_vars
    /\ [][EscalationNode =>
             (state'.input = state.input /\ state'.category = state.category)]_vars

\* C13 witness: a RETURNS result with a generated response was returned for
\* the caller's query.
C13_Witness ==
    /\ pc = "done"
    /\ result.input = reqQuery
    /\ result.category = RETURNS
    /\ result.response # ""
    /\ ~result.needs_escalation


\* The label each raw classification text of the threads stands for.
ExpectedCategory(raw) ==
    CASE raw = <<" ","e","s","c","a","l","a","t","e","\n">> -> ESCALATE
      [] raw = <<"P","r","o","d","u","c","t","s">> -> PRODUCTS

\* The workflow state of an invocation as its own query and the outputs of
\* its own collaborator calls determine it; r is the thread's record.
OwnState(r) ==
    LET category == IF r.raw = None THEN "" ELSE ExpectedCategory(r.raw.text)
    IN  [input |-> r.query,
         category |-> category,
         response |-> IF r.gen # None THEN r.gen.text
                      ELSE IF r.pc = "done" THEN ESCALATION_MESSAGE
                      ELSE "",
         needs_escalation |-> category = ESCALATE]

\* RAGChain objects that hold configuration only.
RequestFreeRAGChains ==
    [_vectorstore : {None, [collection_name |-> "techgear_products"]},
     _retriever : {None, [k |-> DEFAULT_K]},
     _chain : {None, [retriever |-> [k |-> DEFAULT_K]]},
     _llm : {None, [model |-> "gemini-2.0-flash"]}]

\* C14: invocations of process_query running in several threads, one after
\* another or interleaved, are independent: at every moment the state of each
\* invocation, the prompt it sends and the result it returns are what its own
\* query and the outputs of its own collaborator calls determine, and the
\* cached graph and RAGChain objects hold configuration only.
C14_InvocationsIndependent ==
    /\ \A t \in Threads :
         /\ th[t].state # None => th[t].state = OwnState(th[t])
         /\ th[t].pc = "done" => th[t].result = OwnState(th[t])
         /\ th[t].prompt # None => th[t].prompt.question = th[t].query
    /\ _compiled_graph # None =>
         /\ DOMAIN _compiled_graph = {"entry_point", "id"}
         /\ _compiled_graph.entry_point = "classifier"
         /\ _compiled_graph.id \in 1..NThreads
    /\ _rag_chain_instance # None =>
         /\ DOMAIN _rag_chain_instance = {"ref"}
         /\ _rag_chain_instance.ref \in RagConstructed
    /\ \A i \in RagConstructed : ragHeap[i] \in RequestFreeRAGChains

\* C14 witness: two invocations with different queries have both returned and
\* not yet been collected, one escalated and one answered from the RAG chain.
C14_Witness ==
    \E t \in Threads, u \in Threads :
        /\ th[t].pc = "done" /\ th[u].pc = "done"
        /\ th[t].query # th[u].query
        /\ th[t].result.category = ESCALATE
        /\ th[u].result.category = PRODUCTS
        /\ th[u].result.response = "The SmartWatch Pro X is priced at 15,999."
        /\ _rag_chain_instance # None
        /\ ragHeap[_rag_chain_instance.ref]._chain # None

\* The category a workflow state carries, "" when the key is missing.
CategoryOf(st) == IF "category" \in DOMAIN st THEN st.category ELSE ""

\* C15: once the conditional edge has been taken from any workflow state, the
\* branch is escalation exactly when the state's category is ESCALATE
\* (rag_responder for every other value, an empty or missing one included),
\* and it is the branch route_after_classification gives every state with the
\* same category, whatever its input, response and needs_escalation.
C15_RouteDependsOnCategoryAlone ==
    pc \in {"escalation", "rag_responder"} =>
        /\ (pc = "escalation") = (CategoryOf(state) = ESCALATE)
        /\ \A other \in RouteStates :
             CategoryOf(other) = CategoryOf(state) =>
                 conditional_edge(route_after_classification(other)) = pc

\* C15 witness: a state with no category key and needs_escalation set has
\* been routed to rag_responder.
C15_Witness ==
    /\ pc = "rag_responder"
    /\ "category" \notin DOMAIN state
    /\ state.needs_escalation
    /\ state.response = ESCALATION_MESSAGE

\* C16: with an index that yields no passage, an invocation on the RAG path
\* reaches the generation call with an empty context and its own question,
\* makes that call exactly once, and returns the call's text as the response;
\* it ends with an exception only if a collaborator call raised.
C16_EmptyRetrievalStillGenerates ==
    indexDocs = 0 =>
        /\ pc = "rag_generate" =>
              /\ prompt = [context |-> "", question |-> reqQuery]
              /\ calls.generate = 0
        /\ (pc = "done" /\ result.category # ESCALATE) =>
              /\ prompt = [context |-> "", question |-> reqQuery]
              /\ calls.generate = 1
              /\ genOut # None
              /\ result.response = genOut.text
        /\ pc = "raised" => failedAt # None /\ error = [text |-> failedAt.text]

\* C16 witness: a PRODUCTS query answered over an empty index.
C16_Witness ==
    /\ pc = "done"
    /\ indexDocs = 0
    /\ result.category = PRODUCTS
    /\ retrievalArgs # None
    /\ prompt.context = ""
    /\ calls.generate = 1
    /\ result.response = "The SmartWatch Pro X is priced at 15,999."

\* The collaborator calls an invocation has issued when the named call
\* failed; none when the graph's compilation did.
CallsUpTo(call) ==
    [classify |-> IF call = "compile_workflow" THEN 0 ELSE 1,
     retrieve |-> IF call \in {"retrieval", "generation"} THEN 1 ELSE 0,
     generate |-> IF call = "generation" THEN 1 ELSE 0]

\* C17: within one invocation the classification, retrieval and generation
\* calls are each issued at most once; an invocation that ended with an
\* exception has issued exactly the calls up to the one that failed, and no
\* call is issued before its failure has been handed to the caller.
C17_NoRetry ==
    /\ [](/\ calls.classify <= 1
          /\ calls.retrieve <= 1
          /\ calls.generate <= 1
          /\ failedAt # None => (pc = "raised" /\ calls = CallsUpTo(failedAt.call)))
    /\ [][pc = "raised" => (calls' = calls \/ (pc' = "idle" /\ calls' = NoCalls))]_vars

\* C17 witness: the retrieval call failed after the classification call
\* succeeded, and the generation call was never issued.
C17_Witness ==
    /\ pc = "raised"
    /\ failedAt # None
    /\ failedAt.call = "retrieval"
    /\ calls = [classify |-> 1, retrieve |-> 1, generate |-> 0]
    /\ genOut = None

\* C18 as stated: over every interleaving of threads inside process_query,
\* compile_workflow has run at most once and at most one RAGChain object has
\* been constructed and is in use, the callers that hold a graph (a RAGChain)
\* hold the same one, and it is the one the global refers to, so the cached
\* reference has not been replaced.
C18_SingletonsCreatedOnce ==
    /\ graphMade <= 1
    /\ Cardinality(RagConstructed) <= 1
    /\ \A t \in Threads :
         /\ th[t].graph # None => th[t].graph = _compiled_graph
         /\ th[t].rag # None => th[t].rag = _rag_chain_instance
    /\ \A t \in Threads, u \in Threads :
         /\ (th[t].graph # None /\ th[u].graph # None) => th[t].graph = th[u].graph
         /\ (th[t].rag # None /\ th[u].rag # None) => th[t].rag = th[u].rag

====
